---- MODULE Spec2Model ----
(***************************************************************************)
(* Model of the authenticated AVL tree of iavl-rs: src/src/hash.rs,        *)
(* src/src/node.rs, src/src/proof.rs and src/src/tree.rs, and of the       *)
(* key-value store of src/src/db.rs.                                       *)
(*                                                                         *)
(* Byte strings (Vec<u8>, &[u8]) are sequences of byte tokens.  A token is *)
(* either a raw byte or one whole SHA-256 digest, kept as the term of the  *)
(* byte stream it was computed from: the hash is modelled as a function    *)
(* without collisions (distinct streams, distinct digests), and the        *)
(* streaming of hash_array is modelled by concatenating before hashing.    *)
(* Option<T> is a sequence of length 0 (None) or 1 (Some).                 *)
(*                                                                         *)
(* A method of the store is the set of the outcomes its call can have: a   *)
(* call on the rocksdb handle either does its work or fails and leaves the *)
(* store as it was, and key_may_exist may answer true for an absent key.   *)
(***************************************************************************)
EXTENDS Integers, Sequences, FiniteSets, TLC

\* ----------------------------------------------------------------- bounds
\* number of keys the calls draw from; the tree holds at most that many nodes
NumKeys == 4
\* number of inserts of a run that may hit a key already present
MaxOverwrites == 1
\* number of keys of the runs that only add keys
NumBuildKeys == 7
\* number of inserts that may hit a key already present, in the runs that
\* look at what an insert leaves alone
MaxFrameOverwrites == 2
\* number of operations a write batch holds
MaxBatchOps == 2
\* number of byte strings in a list handed to hash_array
MaxParts == 3

\* ---------------------------------------------------------------- options
None == <<>>
Some(v) == <<v>>
\* the outcome of an `expect`/`assert!` that failed: the call unwinds
Panic == <<0, 0>>

\* ------------------------------------------------------------ byte tokens
RawByte(n) == [d |-> 0, b |-> n, s |-> <<>>]
DigestToken(stream) == [d |-> 1, b |-> 0, s |-> stream]

\* b1 || ... || bk, the byte stream a list of byte strings spells
RECURSIVE Concat(_)
Concat(arr) == IF arr = <<>> THEN <<>> ELSE Head(arr) \o Concat(Tail(arr))

\* sha2: the state of a Sha256 is the byte stream absorbed so far
Sha256_new == <<>>

sha_update(sha, bytes) == sha \o bytes

finalize(sha) == << DigestToken(sha) >>

\* hash.rs: one Sha256 state, one update, finalize
hash_value(bytes) == finalize(sha_update(Sha256_new, bytes))

\* the loop of hash_array: one update per element, first to last
RECURSIVE UpdateEach(_, _)
UpdateEach(sha, bytes_array) ==
    IF bytes_array = <<>> THEN sha
    ELSE UpdateEach(sha_update(sha, Head(bytes_array)), Tail(bytes_array))

\* fault variant of hash_array: a fresh Sha256 state for every element, so
\* that only the last element is absorbed
hash_array_fresh_state(bytes_array) ==
    IF bytes_array = <<>> THEN finalize(Sha256_new)
    ELSE finalize(sha_update(Sha256_new, bytes_array[Len(bytes_array)]))

\* hash.rs: one Sha256 state, one update per element, finalize
hash_array(bytes_array) == finalize(UpdateEach(Sha256_new, bytes_array))

\* <[u8] as Ord>::cmp: lexicographic, a proper prefix is Less
RECURSIVE Cmp(_, _)
Cmp(a, b) ==
    IF a = <<>> /\ b = <<>> THEN "Equal"
    ELSE IF a = <<>> THEN "Less"
    ELSE IF b = <<>> THEN "Greater"
    ELSE IF Head(a).b < Head(b).b THEN "Less"
    ELSE IF Head(a).b > Head(b).b THEN "Greater"
    ELSE Cmp(Tail(a), Tail(b))

Max(a, b) == IF a >= b THEN a ELSE b

\* ------------------------------------------------------------------ node.rs
AvlNode(key, value) ==
    LET hash == hash_array(<<key, value>>)
    IN  [key |-> key, value |-> value, hash |-> hash,
         merkle_hash |-> hash_value(hash), height |-> 0,
         left |-> None, right |-> None]

as_node_ref(key, value) == Some(AvlNode(key, value))

left_height(self) == IF self.left = None THEN None ELSE Some(self.left[1].height)

right_height(self) == IF self.right = None THEN None ELSE Some(self.right[1].height)

left_hash(self) == IF self.left = None THEN None ELSE Some(self.left[1].merkle_hash)

right_hash(self) == IF self.right = None THEN None ELSE Some(self.right[1].merkle_hash)

unwrap_or(opt, default) == IF opt = None THEN default ELSE opt[1]

\* fault variant of update_height: a lone left child's height is taken as is
update_height_lone_left(self) ==
    [self EXCEPT !.height =
        IF self.right = None
        THEN IF self.left = None THEN 0 ELSE self.left[1].height
        ELSE IF self.left = None THEN self.right[1].height + 1
             ELSE Max(self.left[1].height, self.right[1].height) + 1]

update_height(self) ==
    [self EXCEPT !.height =
        IF self.right = None
        THEN IF self.left = None THEN 0 ELSE self.left[1].height + 1
        ELSE IF self.left = None THEN self.right[1].height + 1
             ELSE Max(self.left[1].height, self.right[1].height) + 1]

update_hashes(self) ==
    LET l == IF self.left = None THEN <<>> ELSE <<self.left[1].merkle_hash>>
        r == IF self.right = None THEN <<>> ELSE <<self.right[1].merkle_hash>>
    IN  [self EXCEPT !.merkle_hash = hash_array(l \o <<self.hash>> \o r)]

\* fault variant of update_value: the merkle_hash is refreshed as well
update_value_refreshed(self, value) ==
    [node |-> update_hashes([self EXCEPT !.hash = hash_array(<<self.key, value>>),
                                         !.value = value]),
     old  |-> self.value]

\* returns the node after the call and the value it replaced
update_value(self, value) ==
    [node |-> [self EXCEPT !.hash = hash_array(<<self.key, value>>),
                           !.value = value],
     old  |-> self.value]

update(self) == update_height(update_hashes(self))

balance_factor(self) ==
    LET lh == left_height(self)
        rh == right_height(self)
    IN  IF lh = None /\ rh = None THEN 0
        ELSE IF lh = None THEN 0 - rh[1]
        ELSE IF rh = None THEN lh[1]
        ELSE lh[1] - rh[1]

is_leaf(self) == self.right = None /\ self.left = None

\* ------------------------------------------------------------------ tree.rs
\* fault variant of rotate_right: the new root is refreshed before the node
\* moved down
rotate_right_root_first(root) ==
    IF root = None \/ root = Panic THEN Panic
    ELSE IF root[1].left = None THEN Panic
    ELSE LET left == root[1].left[1]
             node == [root[1] EXCEPT !.left = left.right]
             top == update([left EXCEPT !.right = Some(node)])
         IN  Some([top EXCEPT !.right = Some(update(node))])

rotate_right(root) ==
    IF root = None \/ root = Panic THEN Panic
    ELSE IF root[1].left = None THEN Panic
    ELSE LET left == root[1].left[1]
             node == update([root[1] EXCEPT !.left = left.right])
         IN  Some(update([left EXCEPT !.right = Some(node)]))

\* fault variant of rotate_left: the node moved down is not refreshed
rotate_left_no_update(root) ==
    IF root = None \/ root = Panic THEN Panic
    ELSE IF root[1].right = None THEN Panic
    ELSE LET right == root[1].right[1]
             node == [root[1] EXCEPT !.right = right.left]
         IN  Some(update([right EXCEPT !.left = Some(node)]))

rotate_left(root) ==
    IF root = None \/ root = Panic THEN Panic
    ELSE IF root[1].right = None THEN Panic
    ELSE LET right == root[1].right[1]
             node == update([root[1] EXCEPT !.right = right.left])
         IN  Some(update([right EXCEPT !.left = Some(node)]))

\* fault variant of balance_node: a node is rebalanced only when its balance
\* factor is beyond 2 (> 2, < -2)
balance_node_beyond_two(node_ref) ==
    IF node_ref = None \/ node_ref = Panic THEN Panic
    ELSE LET node == node_ref[1]
             bf == balance_factor(node)
         IN  IF bf > 2
             THEN IF node.left = None THEN Panic
                  ELSE IF balance_factor(node.left[1]) < 1
                       THEN LET l == rotate_left(node.left)
                            IN  IF l = Panic THEN Panic
                                ELSE rotate_right(Some([node EXCEPT !.left = l]))
                       ELSE rotate_right(node_ref)
             ELSE IF bf < -2
             THEN IF node.right = None THEN Panic
                  ELSE IF balance_factor(node.right[1]) > -1
                       THEN LET r == rotate_right(node.right)
                            IN  IF r = Panic THEN Panic
                                ELSE rotate_left(Some([node EXCEPT !.right = r]))
                       ELSE rotate_left(node_ref)
             ELSE node_ref

\* fault variant of balance_node: the inner rotation is also made when the
\* child leans to the outside by one (<= 1, >= -1)
balance_node_inner_at_one(node_ref) ==
    IF node_ref = None \/ node_ref = Panic THEN Panic
    ELSE LET node == node_ref[1]
             bf == balance_factor(node)
         IN  IF bf >= 2
             THEN IF node.left = None THEN Panic
                  ELSE IF balance_factor(node.left[1]) <= 1
                       THEN LET l == rotate_left(node.left)
                            IN  IF l = Panic THEN Panic
                                ELSE rotate_right(Some([node EXCEPT !.left = l]))
                       ELSE rotate_right(node_ref)
             ELSE IF bf <= -2
             THEN IF node.right = None THEN Panic
                  ELSE IF balance_factor(node.right[1]) >= -1
                       THEN LET r == rotate_right(node.right)
                            IN  IF r = Panic THEN Panic
                                ELSE rotate_left(Some([node EXCEPT !.right = r]))
                       ELSE rotate_left(node_ref)
             ELSE node_ref

balance_node(node_ref) ==
    IF node_ref = None \/ node_ref = Panic THEN Panic
    ELSE LET node == node_ref[1]
             bf == balance_factor(node)
         IN  IF bf >= 2
             THEN IF node.left = None THEN Panic
                  ELSE IF balance_factor(node.left[1]) < 1
                       THEN LET l == rotate_left(node.left)
                            IN  IF l = Panic THEN Panic
                                ELSE rotate_right(Some([node EXCEPT !.left = l]))
                       ELSE rotate_right(node_ref)
             ELSE IF bf <= -2
             THEN IF node.right = None THEN Panic
                  ELSE IF balance_factor(node.right[1]) > -1
                       THEN LET r == rotate_right(node.right)
                            IN  IF r = Panic THEN Panic
                                ELSE rotate_left(Some([node EXCEPT !.right = r]))
                       ELSE rotate_left(node_ref)
             ELSE node_ref

RECURSIVE insert_recursive_key_first(_, _, _)
\* fault variant of insert_recursive: the comparison is made as
\* key.cmp(node_key) while the arms still read it as node_key.cmp(key)
insert_recursive_key_first(node_ref, key, value) ==
    IF node_ref = None
    THEN [ref |-> as_node_ref(key, value), old |-> None]
    ELSE LET node == node_ref[1]
             ord == Cmp(key, node.key)
         IN  IF ord = "Equal"
             THEN LET u == update_value(node, value)
                  IN  [ref |-> Some(u.node), old |-> Some(u.old)]
             ELSE IF ord = "Greater"
             THEN LET sub == insert_recursive_key_first(node.left, key, value)
                  IN  IF sub.ref = Panic THEN sub
                      ELSE [ref |-> balance_node(Some(update([node EXCEPT !.left = sub.ref]))),
                            old |-> sub.old]
             ELSE LET sub == insert_recursive_key_first(node.right, key, value)
                  IN  IF sub.ref = Panic THEN sub
                      ELSE [ref |-> balance_node(Some(update([node EXCEPT !.right = sub.ref]))),
                            old |-> sub.old]

RECURSIVE insert_recursive_equal_right(_, _, _)
\* fault variant of insert_recursive: an equal key is sent down the right
\* link like a greater one
insert_recursive_equal_right(node_ref, key, value) ==
    IF node_ref = None
    THEN [ref |-> as_node_ref(key, value), old |-> None]
    ELSE LET node == node_ref[1]
             ord == Cmp(node.key, key)
         IN  IF ord = "Greater"
             THEN LET sub == insert_recursive_equal_right(node.left, key, value)
                  IN  IF sub.ref = Panic THEN sub
                      ELSE [ref |-> balance_node(Some(update([node EXCEPT !.left = sub.ref]))),
                            old |-> sub.old]
             ELSE LET sub == insert_recursive_equal_right(node.right, key, value)
                  IN  IF sub.ref = Panic THEN sub
                      ELSE [ref |-> balance_node(Some(update([node EXCEPT !.right = sub.ref]))),
                            old |-> sub.old]

\* returns the link after the call (or Panic) and the captured old value
RECURSIVE insert_recursive(_, _, _)
insert_recursive(node_ref, key, value) ==
    IF node_ref = None
    THEN [ref |-> as_node_ref(key, value), old |-> None]
    ELSE LET node == node_ref[1]
             ord == Cmp(node.key, key)
         IN  IF ord = "Equal"
             THEN LET u == update_value(node, value)
                  IN  [ref |-> Some(u.node), old |-> Some(u.old)]
             ELSE IF ord = "Greater"
             THEN LET sub == insert_recursive(node.left, key, value)
                  IN  IF sub.ref = Panic THEN sub
                      ELSE [ref |-> balance_node(Some(update([node EXCEPT !.left = sub.ref]))),
                            old |-> sub.old]
             ELSE LET sub == insert_recursive(node.right, key, value)
                  IN  IF sub.ref = Panic THEN sub
                      ELSE [ref |-> balance_node(Some(update([node EXCEPT !.right = sub.ref]))),
                            old |-> sub.old]

insert(root, key, value) == insert_recursive(root, key, value)

root_hash(root) == IF root = None THEN None ELSE Some(root[1].merkle_hash)

RECURSIVE get_descending(_, _)
\* fault variant of get: the two directions of the descent exchanged
get_descending(node_ref, key) ==
    IF node_ref = None THEN None
    ELSE LET node == node_ref[1]
             ord == Cmp(node.key, key)
         IN  IF ord = "Greater" THEN get_descending(node.right, key)
             ELSE IF ord = "Less" THEN get_descending(node.left, key)
             ELSE Some(node.value)

RECURSIVE get(_, _)
get(node_ref, key) ==
    IF node_ref = None THEN None
    ELSE LET node == node_ref[1]
             ord == Cmp(node.key, key)
         IN  IF ord = "Greater" THEN get(node.left, key)
             ELSE IF ord = "Less" THEN get(node.right, key)
             ELSE Some(node.value)

RECURSIVE get_proof_recursive_hash_first(_, _)
\* fault variant of get_proof_recursive: going right, the prefix is built as
\* the content hash followed by the left hash
get_proof_recursive_hash_first(key, node_ref) ==
    IF node_ref = None THEN None
    ELSE LET node == node_ref[1]
             ord == Cmp(node.key, key)
             empty_hash == <<>>
         IN  IF ord = "Greater"
             THEN LET sub == get_proof_recursive_hash_first(key, node.left)
                  IN  IF sub = None THEN None
                      ELSE Some([sub[1] EXCEPT !.path = Append(@,
                             [prefix |-> <<>>,
                              suffix |-> node.hash \o unwrap_or(right_hash(node), empty_hash)])])
             ELSE IF ord = "Less"
             THEN LET sub == get_proof_recursive_hash_first(key, node.right)
                  IN  IF sub = None THEN None
                      ELSE Some([sub[1] EXCEPT !.path = Append(@,
                             [prefix |-> node.hash \o unwrap_or(left_hash(node), empty_hash),
                              suffix |-> <<>>])])
             ELSE Some([key |-> node.key, value |-> node.value,
                        path |-> << [prefix |-> unwrap_or(left_hash(node), empty_hash),
                                     suffix |-> unwrap_or(right_hash(node), empty_hash)] >>])

RECURSIVE get_proof_recursive_empty_proof(_, _)
\* fault variant of get_proof_recursive: a missing link yields a proof with an
\* empty value and an empty path instead of None
get_proof_recursive_empty_proof(key, node_ref) ==
    IF node_ref = None THEN Some([key |-> key, value |-> <<>>, path |-> <<>>])
    ELSE LET node == node_ref[1]
             ord == Cmp(node.key, key)
             empty_hash == <<>>
         IN  IF ord = "Greater"
             THEN LET sub == get_proof_recursive_empty_proof(key, node.left)
                  IN  IF sub = None THEN None
                      ELSE Some([sub[1] EXCEPT !.path = Append(@,
                             [prefix |-> <<>>,
                              suffix |-> node.hash \o unwrap_or(right_hash(node), empty_hash)])])
             ELSE IF ord = "Less"
             THEN LET sub == get_proof_recursive_empty_proof(key, node.right)
                  IN  IF sub = None THEN None
                      ELSE Some([sub[1] EXCEPT !.path = Append(@,
                             [prefix |-> unwrap_or(left_hash(node), empty_hash) \o node.hash,
                              suffix |-> <<>>])])
             ELSE Some([key |-> node.key, value |-> node.value,
                        path |-> << [prefix |-> unwrap_or(left_hash(node), empty_hash),
                                     suffix |-> unwrap_or(right_hash(node), empty_hash)] >>])

RECURSIVE get_proof_recursive_root_first(_, _)
\* fault variant of get_proof_recursive: each step is put in front of the
\* path instead of pushed at its end
get_proof_recursive_root_first(key, node_ref) ==
    IF node_ref = None THEN None
    ELSE LET node == node_ref[1]
             ord == Cmp(node.key, key)
             empty_hash == <<>>
         IN  IF ord = "Greater"
             THEN LET sub == get_proof_recursive_root_first(key, node.left)
                  IN  IF sub = None THEN None
                      ELSE Some([sub[1] EXCEPT !.path =
                             << [prefix |-> <<>>,
                                 suffix |-> node.hash \o unwrap_or(right_hash(node), empty_hash)] >>
                             \o @])
             ELSE IF ord = "Less"
             THEN LET sub == get_proof_recursive_root_first(key, node.right)
                  IN  IF sub = None THEN None
                      ELSE Some([sub[1] EXCEPT !.path =
                             << [prefix |-> unwrap_or(left_hash(node), empty_hash) \o node.hash,
                                 suffix |-> <<>>] >>
                             \o @])
             ELSE Some([key |-> node.key, value |-> node.value,
                        path |-> << [prefix |-> unwrap_or(left_hash(node), empty_hash),
                                     suffix |-> unwrap_or(right_hash(node), empty_hash)] >>])

RECURSIVE get_proof_recursive(_, _)
get_proof_recursive(key, node_ref) ==
    IF node_ref = None THEN None
    ELSE LET node == node_ref[1]
             ord == Cmp(node.key, key)
             empty_hash == <<>>
         IN  IF ord = "Greater"
             THEN LET sub == get_proof_recursive(key, node.left)
                  IN  IF sub = None THEN None
                      ELSE Some([sub[1] EXCEPT !.path = Append(@,
                             [prefix |-> <<>>,
                              suffix |-> node.hash \o unwrap_or(right_hash(node), empty_hash)])])
             ELSE IF ord = "Less"
             THEN LET sub == get_proof_recursive(key, node.right)
                  IN  IF sub = None THEN None
                      ELSE Some([sub[1] EXCEPT !.path = Append(@,
                             [prefix |-> unwrap_or(left_hash(node), empty_hash) \o node.hash,
                              suffix |-> <<>>])])
             ELSE Some([key |-> node.key, value |-> node.value,
                        path |-> << [prefix |-> unwrap_or(left_hash(node), empty_hash),
                                     suffix |-> unwrap_or(right_hash(node), empty_hash)] >>])

get_proof(root, key) == get_proof_recursive(key, root)

\* ----------------------------------------------------------------- proof.rs
RECURSIVE FoldPath(_, _)
FoldPath(hash, path) ==
    IF path = <<>> THEN hash
    ELSE FoldPath(hash_array(<<Head(path).prefix, hash, Head(path).suffix>>), Tail(path))

calc_exsistence_root(proof) ==
    FoldPath(hash_array(<<proof.key, proof.value>>), proof.path)

\* tree.rs verify_existence: the two assert! abort, then the root is looked up
verify_existence(root, key, value, proof) ==
    IF proof.key # key THEN "Panic"
    ELSE IF proof.value # value THEN "Panic"
    ELSE IF root_hash(root) = None THEN "RootHashNotFound"
    ELSE IF calc_exsistence_root(proof) = root_hash(root)[1] THEN "Ok"
    ELSE "ValueNonExistence"

\* -------------------------------------------------------------------- db.rs
\* Result<T>: Ok(v) or Err(e)
Ok(v) == [tag |-> "Ok", val |-> v]
Err(e) == [tag |-> "Err", val |-> e]

\* the keys and values handed to the store; the empty string is among both
DbKeys == { <<>>, << RawByte(1) >>, << RawByte(2) >> }
DbValues == { <<>>, << RawByte(1) >>, << RawByte(2) >> }

\* rocksdb::DB: data is what reads see; synced tells whether every write made
\* so far has been flushed to disk
EmptyDb == [data |-> [k \in DbKeys |-> None], synced |-> TRUE]

\* rocksdb::WriteOptions: default, and with set_sync(true)
wo == [sync |-> FALSE]
wo_sync == [sync |-> TRUE]

\* a call on the rocksdb handle answers Ok or Err; when it answers Err the
\* store is as before.  Each of the operators below is the set of the answers
\* the call can give, with the store each one leaves.
Failed(inner) == [db |-> inner, res |-> Err("rocksdb::Error")]

get_opt(inner, key) == { [db |-> inner, res |-> Ok(inner.data[key])], Failed(inner) }

\* rocksdb key_may_exist: FALSE only when the key is absent, TRUE possible
\* either way; the set of the answers it can give
key_may_exist(inner, key) == IF inner.data[key] = None THEN {TRUE, FALSE} ELSE {TRUE}

Written(inner, data, opts) ==
    [data |-> data, synced |-> opts.sync]

\* a write with sync set flushes the log, this write and the ones before it
put_opt(inner, key, value, opts) ==
    { [db |-> Written(inner, [inner.data EXCEPT ![key] = Some(value)], opts),
       res |-> Ok(<<>>)],
      Failed(inner) }

delete_opt(inner, key, opts) ==
    { [db |-> Written(inner, [inner.data EXCEPT ![key] = None], opts), res |-> Ok(<<>>)],
      Failed(inner) }

\* rocksdb::WriteBatch: the puts and deletes recorded, oldest first
WriteBatch_default == <<>>

WriteBatch_put(b, key, value) == Append(b, [op |-> "put", key |-> key, value |-> value])

WriteBatch_delete(b, key) == Append(b, [op |-> "delete", key |-> key, value |-> <<>>])

\* the contents after the operations of a batch, applied in their order
RECURSIVE Applied(_, _)
Applied(data, b) ==
    IF b = <<>> THEN data
    ELSE Applied([data EXCEPT ![Head(b).key] =
                     IF Head(b).op = "put" THEN Some(Head(b).value) ELSE None],
                 Tail(b))

\* rocksdb write and write_opt: the whole batch or nothing
write_opt(inner, b, opts) ==
    { [db |-> Written(inner, Applied(inner.data, b), opts), res |-> Ok(<<>>)],
      Failed(inner) }

write(inner, b) == write_opt(inner, b, wo)

\* rocksdb flush: what reads see is on disk afterwards
flush(inner) == { [db |-> [inner EXCEPT !.synced = TRUE], res |-> Ok(<<>>)],
                  Failed(inner) }

\* .map_err(|e| DBError::WrapError(e.to_string()).into())
map_err(out) ==
    IF out.res.tag = "Err" THEN [db |-> out.db, res |-> Err("WrapError")] ELSE out

\* the methods of impl DB for RocksDB: the set of the outcomes of the call,
\* each the store after the call and the Result
db_get(self, key) ==
    IF key = <<>> THEN { [db |-> self, res |-> Err("EmptyKey")] }
    ELSE { map_err(out) : out \in get_opt(self, key) }

db_has(self, key) ==
    IF key = <<>> THEN { [db |-> self, res |-> Err("EmptyKey")] }
    ELSE { [db |-> self, res |-> Ok(b)] : b \in key_may_exist(self, key) }

db_set(self, key, value) ==
    IF key = <<>> THEN { [db |-> self, res |-> Err("EmptyKey")] }
    ELSE IF value = <<>> THEN { [db |-> self, res |-> Err("EmptyValue")] }
    ELSE { map_err(out) : out \in put_opt(self, key, value, wo) }

\* fault variant of set_sync: the check of the value left out
db_set_sync_any_value(self, key, value) ==
    IF key = <<>> THEN { [db |-> self, res |-> Err("EmptyKey")] }
    ELSE { map_err(out) : out \in put_opt(self, key, value, wo_sync) }

db_set_sync(self, key, value) ==
    IF key = <<>> THEN { [db |-> self, res |-> Err("EmptyKey")] }
    ELSE IF value = <<>> THEN { [db |-> self, res |-> Err("EmptyValue")] }
    ELSE { map_err(out) : out \in put_opt(self, key, value, wo_sync) }

db_delete(self, key) ==
    IF key = <<>> THEN { [db |-> self, res |-> Err("EmptyKey")] }
    ELSE { map_err(out) : out \in delete_opt(self, key, wo) }

db_delete_sync(self, key) ==
    IF key = <<>> THEN { [db |-> self, res |-> Err("EmptyKey")] }
    ELSE { map_err(out) : out \in delete_opt(self, key, wo_sync) }

\* a Box<dyn Batch>: a RocksDBBatch around its WriteBatch, or a value of
\* another type that implements the trait, of which nothing else is known
RocksDBBatch(inner) == [type |-> "RocksDBBatch", inner |-> inner]
OtherBatch == [type |-> "other", inner |-> WriteBatch_default]

\* a RocksDBBatch around an empty WriteBatch
new_batch(self) == RocksDBBatch(WriteBatch_default)

\* batch.as_any().downcast_ref::<RocksDBBatch>()
downcast_ref(batch) == IF batch.type = "RocksDBBatch" THEN Some(batch) ELSE None

\* the downcast comes first: a batch of another type is answered DownCast
\* with no call on the store; take() hands the WriteBatch to the store
db_write_batch(self, batch) ==
    IF downcast_ref(batch) = None THEN { [db |-> self, res |-> Err("DownCast")] }
    ELSE LET b == downcast_ref(batch)[1]
         IN  { map_err(out) : out \in write(self, b.inner) }

db_write_batch_sync(self, batch) ==
    IF downcast_ref(batch) = None THEN { [db |-> self, res |-> Err("DownCast")] }
    ELSE LET b == downcast_ref(batch)[1]
         IN  { map_err(out) : out \in write_opt(self, b.inner, wo_sync) }

\* impl Batch for RocksDBBatch: the batch after the call and the Result
batch_set(self, key, value) ==
    IF key = <<>> THEN [batch |-> self, res |-> Err("EmptyKey")]
    ELSE IF value = <<>> THEN [batch |-> self, res |-> Err("EmptyValue")]
    ELSE [batch |-> RocksDBBatch(WriteBatch_put(self.inner, key, value)),
          res |-> Ok(<<>>)]

batch_delete(self, key) ==
    IF key = <<>> THEN [batch |-> self, res |-> Err("EmptyKey")]
    ELSE [batch |-> RocksDBBatch(WriteBatch_delete(self.inner, key)), res |-> Ok(<<>>)]

\* Result::unwrap: the value of an Ok, a panic on an Err
unwrap(res) == IF res.tag = "Err" THEN [tag |-> "Panic", val |-> res.val] ELSE res

\* impl Drop for RocksDB: flush().unwrap()
drop(self) == { [db |-> out.db, res |-> unwrap(out.res)] : out \in flush(self) }

\* ------------------------------------------------------- inputs of the calls
RECURSIVE Shortlex(_)
\* the i-th byte string over the bytes 1 and 2, shortest first:
\* <<>>, <<1>>, <<2>>, <<1,1>>, <<1,2>>, <<2,1>>, ...
Shortlex(i) ==
    IF i = 0 THEN <<>>
    ELSE Shortlex((i - 1) \div 2) \o << RawByte(((i - 1) % 2) + 1) >>

\* keys are not empty (spec 6.1); values may be
Keys == { Shortlex(i) : i \in 1..NumKeys }
BuildKeys == { Shortlex(i) : i \in 1..NumBuildKeys }
AllKeys == Keys \cup BuildKeys
Values == { <<>>, << RawByte(1) >> }

RECURSIVE Size(_)
Size(node_ref) ==
    IF node_ref = None THEN 0
    ELSE 1 + Size(node_ref[1].left) + Size(node_ref[1].right)

RECURSIVE Nodes(_)
\* every node of the tree, as the subtree it roots
Nodes(node_ref) ==
    IF node_ref = None THEN {}
    ELSE {node_ref[1]} \cup Nodes(node_ref[1].left) \cup Nodes(node_ref[1].right)

RECURSIVE InOrder(_)
\* the (key, value) pairs of an in-order traversal
InOrder(node_ref) ==
    IF node_ref = None THEN <<>>
    ELSE InOrder(node_ref[1].left)
         \o << <<node_ref[1].key, node_ref[1].value>> >>
         \o InOrder(node_ref[1].right)

RECURSIVE Shape(_)
\* the tree with everything but the links erased
Shape(node_ref) ==
    IF node_ref = None THEN None
    ELSE Some([left |-> Shape(node_ref[1].left), right |-> Shape(node_ref[1].right)])

\* the last i steps of a proof path (the steps nearest the root)
PathTail(path, i) == SubSeq(path, Len(path) - i + 1, Len(path))

\* the proofs a caller can hand to verify_existence(key, value, .): the proof
\* get_proof returned for some key, as returned or relabelled with the pair
\* asked about, whole or cut short
Proofs(root, key, value) ==
    { [key |-> pk, value |-> value, path |-> <<>>] : pk \in {key, Shortlex(1)} }
    \cup UNION { LET p == get_proof(root, k)
                 IN  IF p = None THEN {}
                     ELSE { p[1] }
                          \cup { [key |-> key, value |-> value,
                                  path |-> PathTail(p[1].path, i)] :
                                  i \in 0..Len(p[1].path) }
                 : k \in Keys }

\* the keys asked about: the key space and the content hashes in the tree
VerifyKeys(root) == Keys \cup { n.hash : n \in Nodes(root) }

\* ------------------------------------------------------------------- state
VARIABLES root,        \* Tree.root
          pre,         \* Tree.root before the last call
          kv,          \* the map the calls so far should have built
          last,        \* the last call: its arguments and what it returned
          overwrites,  \* number of inserts so far whose key was present
          treeA, treeB,  \* two trees fed the same pairs
          orderA, orderB,\* the order in which each is fed them
          doneA, doneB,  \* how many pairs each has been fed
          lists,       \* two lists of byte strings handed to the hash functions
          digests,     \* what the hash functions returned for them
          db,          \* the RocksDB store: its contents and whether they are synced
          dbLast,      \* the last call on the store or on the batch
          batch,       \* the write batch in the caller's hands, if any
          rot          \* the last rotation applied to a subtree

vars == <<root, pre, kv, last, overwrites, treeA, treeB, orderA, orderB, doneA, doneB,
          lists, digests, db, dbLast, batch, rot>>
treeVars == <<root, pre, kv, last, overwrites>>
orderVars == <<treeA, treeB, orderA, orderB, doneA, doneB>>
hashVars == <<lists, digests>>
dbVars == <<db, dbLast, batch>>

\* was: what kv held for the key before the call; again: the call repeats the
\* call before it; old: the Option the call returned
NoCall == [op |-> "new", key |-> <<>>, value |-> <<>>, was |-> None, again |-> FALSE,
           old |-> None, proof |-> None, res |-> "Ok"]

\* Tree::new()
TreeInit ==
    /\ root = None
    /\ pre = None
    /\ kv = [k \in AllKeys |-> None]
    /\ last = NoCall
    /\ overwrites = 0

OrderIdle ==
    /\ treeA = None
    /\ treeB = None
    /\ orderA = <<>>
    /\ orderB = <<>>
    /\ doneA = 0
    /\ doneB = 0

NoDigests == [a |-> None, b |-> None, v |-> None]

HashIdle ==
    /\ lists = << <<>>, <<>> >>
    /\ digests = NoDigests

\* a store just opened on an empty directory (new_rocks_db, create_if_missing)
NoDbCall == [op |-> "open", key |-> <<>>, value |-> <<>>, res |-> Ok(None),
             before |-> EmptyDb]

DbIdle ==
    /\ db = EmptyDb
    /\ dbLast = NoDbCall
    /\ batch = None

NoRotation == [op |-> "none", before |-> None, after |-> None]

RotIdle == rot = NoRotation

Init == TreeInit /\ OrderIdle /\ HashIdle /\ DbIdle /\ RotIdle

Running == last.res # "Panic"

\* Tree::insert, in a run of at most bound inserts on keys already present
InsertBounded(key, value, bound) ==
    /\ Running
    /\ kv[key] # None => overwrites < bound
    /\ LET r == insert(root, key, value)
       IN  /\ root' = IF r.ref = Panic THEN root ELSE r.ref
           /\ last' = [NoCall EXCEPT !.op = "insert", !.key = key, !.value = value,
                                     !.was = kv[key], !.old = r.old,
                                     !.again = /\ last.op = "insert"
                                               /\ last.key = key
                                               /\ last.value = value,
                                     !.res = IF r.ref = Panic THEN "Panic" ELSE "Ok"]
    /\ pre' = root
    /\ kv' = [kv EXCEPT ![key] = Some(value)]
    /\ overwrites' = IF kv[key] = None THEN overwrites ELSE overwrites + 1
    /\ UNCHANGED orderVars
    /\ UNCHANGED <<hashVars, dbVars, rot>>

Insert(key, value) == InsertBounded(key, value, MaxOverwrites)

Get(key) ==
    /\ Running
    /\ last' = [NoCall EXCEPT !.op = "get", !.key = key, !.was = kv[key],
                              !.old = get(root, key)]
    /\ pre' = root
    /\ UNCHANGED <<root, kv, overwrites>>
    /\ UNCHANGED orderVars
    /\ UNCHANGED <<hashVars, dbVars, rot>>

GetProof(key) ==
    /\ Running
    /\ last' = [NoCall EXCEPT !.op = "get_proof", !.key = key, !.was = kv[key],
                              !.proof = get_proof(root, key)]
    /\ pre' = root
    /\ UNCHANGED <<root, kv, overwrites>>
    /\ UNCHANGED orderVars
    /\ UNCHANGED <<hashVars, dbVars, rot>>

VerifyExistence(key, value, proof) ==
    /\ Running
    /\ last' = [NoCall EXCEPT !.op = "verify_existence", !.key = key, !.value = value,
                              !.proof = Some(proof),
                              !.res = verify_existence(root, key, value, proof)]
    /\ pre' = root
    /\ UNCHANGED <<root, kv, overwrites>>
    /\ UNCHANGED orderVars
    /\ UNCHANGED <<hashVars, dbVars, rot>>

\* the caller verifies what get and get_proof returned for a present key
\* (test_proof)
VerifyReturned(key) ==
    /\ get(root, key) # None
    /\ get_proof(root, key) # None
    /\ VerifyExistence(key, get(root, key)[1], get_proof(root, key)[1])

Next ==
    \/ \E key \in Keys, value \in Values : Insert(key, value)
    \/ \E key \in Keys : Get(key)
    \/ \E key \in Keys : GetProof(key)

Spec == Init /\ [][Next]_vars

\* --------- proofs of trees built from distinct keys, each its own value
\* (test_proof)
InsertNew(key, value) ==
    /\ kv[key] = None
    /\ Insert(key, value)

NextProof ==
    \/ \E key \in BuildKeys : InsertNew(key, key)
    \/ \E key \in BuildKeys : GetProof(key)
    \/ \E key \in BuildKeys : VerifyReturned(key)

SpecProof == Init /\ [][NextProof]_vars

\* ------------ taller trees: keys are only added, each as its own value
\* (test_simple_tree)
NextBuild == \E key \in BuildKeys : InsertNew(key, key)

SpecBuild == Init /\ [][NextBuild]_vars

\* ---------------------------------------- a verifier handed arbitrary proofs
VerifyAny ==
    \E key \in VerifyKeys(root), value \in Values :
       \E proof \in Proofs(root, key, value) : VerifyExistence(key, value, proof)

NextVerify ==
    \/ \E key \in Keys, value \in Values : InsertNew(key, value)
    \/ VerifyAny

SpecVerify == Init /\ [][NextVerify]_vars

\* --------------------------------- the same pairs inserted in two orders
RECURSIVE InjectiveSeqs(_, _)
\* the sequences of n distinct elements of S
InjectiveSeqs(S, n) ==
    IF n = 0 THEN { <<>> }
    ELSE UNION { { <<x>> \o t : t \in InjectiveSeqs(S \ {x}, n - 1) } : x \in S }

Range(f) == { f[i] : i \in DOMAIN f }

\* the values given to the keys: one value for all, or by the key's length
ValueChoices ==
    { [k \in Keys |-> v] : v \in Values }
    \cup { [k \in Keys |-> IF Len(k) = 1 THEN <<>> ELSE << RawByte(1) >>] }

InitOrder ==
    /\ TreeInit
    /\ HashIdle
    /\ DbIdle
    /\ RotIdle
    /\ treeA = None
    /\ treeB = None
    /\ doneA = 0
    /\ doneB = 0
    /\ \E n \in 1..NumKeys, val \in ValueChoices :
          \E ks \in InjectiveSeqs(Keys, n) :
             /\ orderA = [i \in 1..n |-> <<ks[i], val[ks[i]]>>]
             /\ orderB \in InjectiveSeqs(Range(orderA), n)

InsertA ==
    /\ doneA < Len(orderA)
    /\ treeA' = insert(treeA, orderA[doneA + 1][1], orderA[doneA + 1][2]).ref
    /\ doneA' = doneA + 1
    /\ UNCHANGED <<treeB, orderA, orderB, doneB>>
    /\ UNCHANGED treeVars
    /\ UNCHANGED <<hashVars, dbVars, rot>>

InsertB ==
    /\ doneA = Len(orderA)
    /\ doneB < Len(orderB)
    /\ treeB' = insert(treeB, orderB[doneB + 1][1], orderB[doneB + 1][2]).ref
    /\ doneB' = doneB + 1
    /\ UNCHANGED <<treeA, orderA, orderB, doneA>>
    /\ UNCHANGED treeVars
    /\ UNCHANGED <<hashVars, dbVars, rot>>

NextOrder == InsertA \/ InsertB

SpecOrder == InitOrder /\ [][NextOrder]_vars

\* ------------------------- inserts that hit present keys more than once
NextFrame == \E key \in Keys, value \in Values : InsertBounded(key, value, MaxFrameOverwrites)

SpecFrame == Init /\ [][NextFrame]_vars

\* ------------- proofs asked for and verified after inserts on present keys
NextReproof ==
    \/ \E key \in Keys, value \in Values : Insert(key, value)
    \/ \E key \in Keys : VerifyReturned(key)

SpecReproof == Init /\ [][NextReproof]_vars

\* ------------------------------- a rotation applied to a subtree of the tree
RotateRight(n) ==
    /\ rot' = [op |-> "rotate_right", before |-> Some(n), after |-> rotate_right(Some(n))]
    /\ UNCHANGED <<treeVars, orderVars, hashVars, dbVars>>

RotateLeft(n) ==
    /\ rot' = [op |-> "rotate_left", before |-> Some(n), after |-> rotate_left(Some(n))]
    /\ UNCHANGED <<treeVars, orderVars, hashVars, dbVars>>

\* the tree is built by inserts, then one of its subtrees is rotated
NextRotate ==
    \/ rot = NoRotation /\ \E key \in Keys, value \in Values : Insert(key, value)
    \/ rot = NoRotation /\ \E n \in Nodes(root) : RotateRight(n)
    \/ rot = NoRotation /\ \E n \in Nodes(root) : RotateLeft(n)

SpecRotate == Init /\ [][NextRotate]_vars

\* ------------------------------------------------------ the hash functions
\* the byte strings a list is made of
HashParts == { <<>>, << RawByte(1) >>, << RawByte(2) >>, << RawByte(1), RawByte(2) >> }

HashLists == UNION { [1..n -> HashParts] : n \in 0..MaxParts }

InitHash ==
    /\ TreeInit
    /\ OrderIdle
    /\ DbIdle
    /\ RotIdle
    /\ lists \in HashLists \X HashLists
    /\ digests = NoDigests

\* hash_array called on each of the two lists
HashArray ==
    /\ digests.a = None
    /\ digests' = [digests EXCEPT !.a = Some(hash_array(lists[1])),
                                  !.b = Some(hash_array(lists[2]))]
    /\ UNCHANGED <<lists, treeVars, orderVars, dbVars, rot>>

\* hash_value called on the first list's elements laid end to end
HashValue ==
    /\ digests.v = None
    /\ digests' = [digests EXCEPT !.v = Some(hash_value(Concat(lists[1])))]
    /\ UNCHANGED <<lists, treeVars, orderVars, dbVars, rot>>

NextHash == HashArray \/ HashValue

SpecHash == InitHash /\ [][NextHash]_vars

\* ------------------------------------------------------------ the KV store
\* RocksDB is Clone over an Rc<Inner>: the drop of one handle flushes and
\* leaves the store to the other handles; a panic ends the run
DbOpen == dbLast.res.tag # "Panic"

DbCall(op, key, value, out) ==
    /\ DbOpen
    /\ db' = out.db
    /\ dbLast' = [op |-> op, key |-> key, value |-> value, res |-> out.res,
                  before |-> db]
    /\ UNCHANGED <<treeVars, orderVars, hashVars, rot>>

DbGet(key) ==
    \E out \in db_get(db, key) : DbCall("get", key, <<>>, out) /\ UNCHANGED batch

DbHas(key) ==
    \E out \in db_has(db, key) : DbCall("has", key, <<>>, out) /\ UNCHANGED batch

DbSet(key, value) ==
    \E out \in db_set(db, key, value) : DbCall("set", key, value, out) /\ UNCHANGED batch

DbSetSync(key, value) ==
    \E out \in db_set_sync(db, key, value) :
       DbCall("set_sync", key, value, out) /\ UNCHANGED batch

DbDelete(key) ==
    \E out \in db_delete(db, key) : DbCall("delete", key, <<>>, out) /\ UNCHANGED batch

DbDeleteSync(key) ==
    \E out \in db_delete_sync(db, key) :
       DbCall("delete_sync", key, <<>>, out) /\ UNCHANGED batch

\* new_batch: the caller holds one batch at a time
NewBatch ==
    /\ batch = None
    /\ batch' = Some(new_batch(db))
    /\ DbCall("new_batch", <<>>, <<>>, [db |-> db, res |-> Ok(<<>>)])

\* the caller comes with a Batch that is not the store's
ForeignBatch ==
    /\ batch = None
    /\ batch' = Some(OtherBatch)
    /\ DbCall("foreign_batch", <<>>, <<>>, [db |-> db, res |-> Ok(<<>>)])

\* set and delete of impl Batch for RocksDBBatch
BatchSet(key, value) ==
    /\ batch # None
    /\ batch[1].type = "RocksDBBatch"
    /\ Len(batch[1].inner) < MaxBatchOps
    /\ LET out == batch_set(batch[1], key, value)
       IN  /\ batch' = Some(out.batch)
           /\ DbCall("batch_set", key, value, [db |-> db, res |-> out.res])

BatchDelete(key) ==
    /\ batch # None
    /\ batch[1].type = "RocksDBBatch"
    /\ Len(batch[1].inner) < MaxBatchOps
    /\ LET out == batch_delete(batch[1], key)
       IN  /\ batch' = Some(out.batch)
           /\ DbCall("batch_delete", key, <<>>, [db |-> db, res |-> out.res])

\* write_batch takes the batch from the caller
WriteBatch ==
    /\ batch # None
    /\ batch' = None
    /\ \E out \in db_write_batch(db, batch[1]) : DbCall("write_batch", <<>>, <<>>, out)

WriteBatchSync ==
    /\ batch # None
    /\ batch' = None
    /\ \E out \in db_write_batch_sync(db, batch[1]) :
          DbCall("write_batch_sync", <<>>, <<>>, out)

\* a handle of the store goes out of scope
DbDrop ==
    \E out \in drop(db) : DbCall("drop", <<>>, <<>>, out) /\ UNCHANGED batch

NextDb ==
    \/ \E key \in DbKeys : DbGet(key)
    \/ \E key \in DbKeys : DbHas(key)
    \/ \E key \in DbKeys, value \in DbValues : DbSet(key, value)
    \/ \E key \in DbKeys, value \in DbValues : DbSetSync(key, value)
    \/ \E key \in DbKeys : DbDelete(key)
    \/ \E key \in DbKeys : DbDeleteSync(key)
    \/ NewBatch
    \/ ForeignBatch
    \/ \E key \in DbKeys, value \in DbValues : BatchSet(key, value)
    \/ \E key \in DbKeys : BatchDelete(key)
    \/ WriteBatch
    \/ WriteBatchSync
    \/ DbDrop

SpecDb == Init /\ [][NextDb]_vars

TypeOK ==
    /\ last.op \in {"new", "insert", "get", "get_proof", "verify_existence"}
    /\ last.res \in {"Ok", "ValueNonExistence", "RootHashNotFound", "Panic"}
    /\ overwrites \in 0..Max(MaxOverwrites, MaxFrameOverwrites)
    /\ Size(root) <= Cardinality(AllKeys)

\* ------------------------------------------------------------ tree measures
\* height of a link by the convention of the AVL definition: absent is -1
RECURSIVE TrueHeight(_)
TrueHeight(node_ref) ==
    IF node_ref = None THEN -1
    ELSE 1 + Max(TrueHeight(node_ref[1].left), TrueHeight(node_ref[1].right))

\* the stored height of a link, absent counted as -1
StoredHeight(node_ref) == IF node_ref = None THEN -1 ELSE node_ref[1].height

KeysOf(node_ref) == { n.key : n \in Nodes(node_ref) }

Stored(node_ref, key, value) ==
    \E n \in Nodes(node_ref) : n.key = key /\ n.value = value

Abs(x) == IF x < 0 THEN 0 - x ELSE x

\* the node's stored height and merkle_hash follow from its children's
NodeConsistent(n) ==
    /\ n.height = 1 + Max(StoredHeight(n.left), StoredHeight(n.right))
    /\ n.merkle_hash = hash_array(<< unwrap_or(left_hash(n), <<>>), n.hash,
                                     unwrap_or(right_hash(n), <<>>) >>)

SubtreeConsistent(node_ref) == \A n \in Nodes(node_ref) : NodeConsistent(n)

\* the node with its links and what is computed from them left out
Content(n) == [key |-> n.key, value |-> n.value, hash |-> n.hash]

\* the tree with the value and content hash of the node of the key erased
RECURSIVE Blank(_, _)
Blank(node_ref, key) ==
    IF node_ref = None THEN None
    ELSE LET n == node_ref[1]
         IN  Some([n EXCEPT !.value = IF n.key = key THEN <<>> ELSE @,
                            !.hash = IF n.key = key THEN <<>> ELSE @,
                            !.left = Blank(n.left, key),
                            !.right = Blank(n.right, key)])

\* the nodes the search for the key passes before it reaches the key's node
RECURSIVE Ancestors(_, _)
Ancestors(node_ref, key) ==
    IF node_ref = None THEN {}
    ELSE LET n == node_ref[1]
             ord == Cmp(n.key, key)
         IN  IF ord = "Greater" THEN {n} \cup Ancestors(n.left, key)
             ELSE IF ord = "Less" THEN {n} \cup Ancestors(n.right, key)
             ELSE {}

\* Blank, with the merkle_hash of the nodes above the key's node erased too
RECURSIVE BlankPath(_, _)
BlankPath(node_ref, key) ==
    IF node_ref = None THEN None
    ELSE LET n == node_ref[1]
             ord == Cmp(n.key, key)
         IN  IF ord = "Equal"
             THEN Some([n EXCEPT !.value = <<>>, !.hash = <<>>])
             ELSE Some([n EXCEPT !.merkle_hash = <<>>,
                                 !.left = IF ord = "Greater" THEN BlankPath(n.left, key) ELSE @,
                                 !.right = IF ord = "Less" THEN BlankPath(n.right, key) ELSE @])

\* the node of the key
NodeOf(node_ref, key) == CHOOSE n \in Nodes(node_ref) : n.key = key

\* the nodes the search for the key visits, from the root down; the last one
\* is the node of the key when the key is present
RECURSIVE SearchPath(_, _)
SearchPath(node_ref, key) ==
    IF node_ref = None THEN <<>>
    ELSE LET n == node_ref[1]
             ord == Cmp(n.key, key)
         IN  IF ord = "Greater" THEN <<n>> \o SearchPath(n.left, key)
             ELSE IF ord = "Less" THEN <<n>> \o SearchPath(n.right, key)
             ELSE <<n>>

\* a subtree hash, or nothing for an absent child
HashOrEmpty(node_ref) == IF node_ref = None THEN <<>> ELSE node_ref[1].merkle_hash

\* the proof has the shape stated for the key: one step per node of the
\* search path, the node of the key first and the root last
PathShape(node_ref, key, proof) ==
    LET sp == SearchPath(node_ref, key)
        m == Len(sp)
    IN  /\ proof.key = sp[m].key
        /\ proof.value = sp[m].value
        /\ Len(proof.path) = m
        /\ proof.path[1].prefix = HashOrEmpty(sp[m].left)
        /\ proof.path[1].suffix = HashOrEmpty(sp[m].right)
        /\ \A i \in 2..m :
              LET a == sp[m - i + 1]
              IN  IF Cmp(key, a.key) = "Less"
                  THEN /\ proof.path[i].prefix = <<>>
                       /\ proof.path[i].suffix = a.hash \o HashOrEmpty(a.right)
                  ELSE /\ proof.path[i].prefix = HashOrEmpty(a.left) \o a.hash
                       /\ proof.path[i].suffix = <<>>

\* ================================================================== claims

\* C1: the tree behaves as a map. get(k) returns the value of the most recent
\* insert(k, .) and None for a key never inserted, and every insert(k, v)
\* returns the value k held immediately before the call (None if it held none).
MapBehaviour ==
    /\ \A k \in AllKeys : get(root, k) = kv[k]
    /\ last.op = "get" => last.old = last.was
    /\ last.op = "insert" => last.old = last.was

\* an insert that replaced a different value in a tree of three or more nodes
MapBehaviourWitness ==
    /\ last.op = "insert"
    /\ last.was # None
    /\ last.old = last.was
    /\ last.old # Some(last.value)
    /\ Size(root) >= 3
    /\ \E k \in Keys : kv[k] = None
    /\ \E k \in Keys : k # last.key /\ kv[k] # None

\* C2: after inserts of pairwise distinct keys, every present key k has a proof
\* and verify_existence(k, get(k), get_proof(k)) is Ok: folding the path from
\* H(k || value) gives root_hash().
ProofSoundness ==
    overwrites = 0 =>
        /\ \A k \in AllKeys :
              kv[k] # None =>
                 /\ get_proof(root, k) # None
                 /\ calc_exsistence_root(get_proof(root, k)[1]) = root_hash(root)[1]
                 /\ verify_existence(root, k, get(root, k)[1], get_proof(root, k)[1]) = "Ok"
        /\ last.op = "verify_existence" => last.res = "Ok"

\* a proof of four steps, with a step to either side, verified in a tree of
\* seven or more distinct keys
ProofSoundnessWitness ==
    /\ overwrites = 0
    /\ last.op = "verify_existence"
    /\ last.res = "Ok"
    /\ Len(last.proof[1].path) >= 4
    /\ \E i \in 2..Len(last.proof[1].path) : last.proof[1].path[i].prefix # <<>>
    /\ \E i \in 2..Len(last.proof[1].path) : last.proof[1].path[i].suffix # <<>>
    /\ Size(root) >= 7

OrdersDone == doneA = Len(orderA) /\ doneB = Len(orderB) /\ orderA # <<>>

\* C3 as stated: the same pairs with distinct keys, inserted into two fresh
\* trees in any two orders, give the same root_hash().
RootDeterminism ==
    OrdersDone => root_hash(treeA) = root_hash(treeB)

\* C3 as amended: the same pairs with distinct keys, inserted in two orders,
\* give the same root_hash() whenever the two orders end in the same tree shape.
RootDeterminismSameShape ==
    (OrdersDone /\ Shape(treeA) = Shape(treeB)) => root_hash(treeA) = root_hash(treeB)

\* four pairs fed in two different orders that end in the same shape
RootDeterminismWitness ==
    /\ OrdersDone
    /\ orderA # orderB
    /\ Len(orderA) >= 4
    /\ Shape(treeA) = Shape(treeB)
    /\ root_hash(treeA) = root_hash(treeB)

\* C4: verify_existence(key, value, proof) returns Ok only when (key, value) is
\* a pair stored in the tree, whatever the proof path.
VerifySound ==
    (last.op = "verify_existence" /\ last.res = "Ok") => Stored(root, last.key, last.value)

\* C5: for every node all keys of the left subtree are strictly less than the
\* node's key and all keys of the right subtree strictly greater, so the
\* in-order traversal is strictly increasing and no two nodes share a key.
BSTOrder ==
    /\ \A n \in Nodes(root) :
          /\ \A m \in Nodes(n.left) : Cmp(m.key, n.key) = "Less"
          /\ \A m \in Nodes(n.right) : Cmp(m.key, n.key) = "Greater"
    /\ LET io == InOrder(root)
       IN  \A i \in 1..(Len(io) - 1) : Cmp(io[i][1], io[i + 1][1]) = "Less"
    /\ Cardinality(KeysOf(root)) = Size(root)

\* an insert that rotated: the root has changed and a key is a proper prefix
\* of another
BSTOrderWitness ==
    /\ last.op = "insert"
    /\ Size(root) >= 4
    /\ pre # None
    /\ root[1].key # pre[1].key
    /\ \E a \in KeysOf(root), b \in KeysOf(root) :
          Len(a) < Len(b) /\ SubSeq(b, 1, Len(a)) = a

\* C6: every node has |height(left) - height(right)| <= 1, an absent child
\* counting as height -1 and a leaf as height 0.
AVLBalance ==
    \A n \in Nodes(root) : Abs(TrueHeight(n.left) - TrueHeight(n.right)) <= 1

\* C7: after every insert, new key or overwrite, every node has
\* merkle_hash = H(left.merkle_hash || hash || right.merkle_hash), an absent
\* child's hash omitted.
SubtreeHashConsistency ==
    \A n \in Nodes(root) :
       n.merkle_hash = hash_array(<< unwrap_or(left_hash(n), <<>>), n.hash,
                                     unwrap_or(right_hash(n), <<>>) >>)

\* C8: every node's stored height is 1 + max(height(left), height(right)), an
\* absent child counting as -1; every leaf has height 0.
HeightConsistency ==
    \A n \in Nodes(root) :
       /\ n.height = 1 + Max(StoredHeight(n.left), StoredHeight(n.right))
       /\ n.height = TrueHeight(Some(n))
       /\ is_leaf(n) => n.height = 0

\* an insert that rotated below the root, in a tree of height 3 or more with
\* a node whose only child is its left one
HeightConsistencyWitness ==
    /\ last.op = "insert"
    /\ pre # None
    /\ root[1].key = pre[1].key
    /\ \/ pre[1].left # None /\ root[1].left[1].key # pre[1].left[1].key
       \/ pre[1].right # None /\ root[1].right[1].key # pre[1].right[1].key
    /\ root[1].height >= 3
    /\ \E n \in Nodes(root) : n.left # None /\ n.right = None

\* C9: insert(k, v2) on a tree holding (k, v1), v2 # v1, returns v1, leaves
\* get(k) = v2 and changes root_hash().
OverwriteChangesRoot ==
    (last.op = "insert" /\ last.was # None /\ last.was # Some(last.value)) =>
        /\ last.old = last.was
        /\ get(root, last.key) = Some(last.value)
        /\ root_hash(root) # root_hash(pre)

\* C10: insert(k, v) performed twice in a row leaves the root_hash() the first
\* call left, and the second call returns v.
OverwriteIdempotence ==
    (last.op = "insert" /\ last.again) =>
        /\ root_hash(root) = root_hash(pre)
        /\ last.old = Some(last.value)

\* a repeated insert of a key that is not at the root
OverwriteIdempotenceWitness ==
    /\ last.op = "insert"
    /\ last.again
    /\ last.old = Some(last.value)
    /\ Size(root) >= 3
    /\ root[1].key # last.key
    /\ root_hash(root) = root_hash(pre)

\* C11: after any sequence of inserts, get_proof(k) is None for every key k
\* that was never inserted; on the empty tree that is every key.
ProofCompleteness ==
    /\ \A k \in AllKeys : kv[k] = None => get_proof(root, k) = None
    /\ (last.op = "get_proof" /\ last.was = None) => last.proof = None

\* get_proof of a key never inserted, on a tree of three or more nodes that
\* holds keys to either side of it and has seen an overwrite
ProofCompletenessWitness ==
    /\ last.op = "get_proof"
    /\ last.was = None
    /\ last.proof = None
    /\ Size(root) >= 3
    /\ overwrites >= 1
    /\ \E a \in KeysOf(root), b \in KeysOf(root) :
          Cmp(a, last.key) = "Less" /\ Cmp(last.key, b) = "Less"

\* C12: on a tree with no root, verify_existence(key, value, proof) returns the
\* error RootHashNotFound for every key, value and proof, also for a proof
\* whose key or value differs from the arguments.
EmptyTreeVerification ==
    (last.op = "verify_existence" /\ root = None) => last.res = "RootHashNotFound"

\* C13: verify_existence ends in Ok, ValueNonExistence or RootHashNotFound; on
\* a non-empty tree it is Ok exactly when the digest recomputed from the proof
\* equals root_hash() and ValueNonExistence otherwise; a proof whose key or
\* value differs from the arguments is rejected with an error, never Ok and
\* never an abort.
VerifyOutcomes ==
    last.op = "verify_existence" =>
        /\ last.res \in {"Ok", "ValueNonExistence", "RootHashNotFound"}
        /\ root # None =>
              IF calc_exsistence_root(last.proof[1]) = root_hash(root)[1]
              THEN last.res = "Ok"
              ELSE last.res = "ValueNonExistence"
        /\ (last.proof[1].key # last.key \/ last.proof[1].value # last.value) =>
              last.res \in {"ValueNonExistence", "RootHashNotFound"}

\* C14: hash_array([b1, ..., bk]) equals hash_value(b1 || ... || bk), so two
\* lists that spell the same byte stream have the same digest however the
\* stream is split, and empty elements contribute nothing.
StreamingHash ==
    /\ (digests.a # None /\ digests.v # None) => digests.a = digests.v
    /\ (digests.a # None /\ Concat(lists[1]) = Concat(lists[2])) => digests.a = digests.b

\* two different splits of a stream of two or more bytes, one of them with an
\* empty element, hashed by hash_array, and the stream hashed by hash_value
StreamingHashWitness ==
    /\ digests.a # None
    /\ digests.v # None
    /\ lists[1] # lists[2]
    /\ Len(lists[1]) # Len(lists[2])
    /\ \E i \in DOMAIN lists[1] : lists[1][i] = <<>>
    /\ \A i \in DOMAIN lists[2] : lists[2][i] # <<>>
    /\ Concat(lists[1]) = Concat(lists[2])
    /\ Len(Concat(lists[1])) >= 2
    /\ digests.a = digests.b
    /\ digests.a = digests.v

\* C15: get, set, set_sync, delete and delete_sync called with an empty key
\* return the error EmptyKey; set and set_sync called with a non-empty key and
\* an empty value return EmptyValue; in each of these cases the store is left
\* as it was.
StoreValidation ==
    /\ (dbLast.op \in {"get", "set", "set_sync", "delete", "delete_sync"}
         /\ dbLast.key = <<>>) =>
            /\ dbLast.res = Err("EmptyKey")
            /\ db = dbLast.before
    /\ (dbLast.op \in {"set", "set_sync"} /\ dbLast.key # <<>> /\ dbLast.value = <<>>) =>
            /\ dbLast.res = Err("EmptyValue")
            /\ db = dbLast.before

\* set_sync of an empty value on a key that holds a value, in a store with a
\* write not yet synced: EmptyValue, and the store is as before
StoreValidationWitness ==
    /\ dbLast.op = "set_sync"
    /\ dbLast.key # <<>>
    /\ dbLast.value = <<>>
    /\ dbLast.res = Err("EmptyValue")
    /\ db = dbLast.before
    /\ db.data[dbLast.key] # None
    /\ ~db.synced

\* C16: after every completed insert, balance_factor() as the node computes it
\* is -1, 0 or 1 at every node of the tree.
StoredBalance ==
    last.res = "Ok" => \A n \in Nodes(root) : balance_factor(n) \in {-1, 0, 1}

\* an insert that rotated below the root and left nodes with balance_factor
\* -1, 0 and 1 in a tree of seven nodes
StoredBalanceWitness ==
    /\ last.op = "insert"
    /\ last.res = "Ok"
    /\ pre # None
    /\ root[1].key = pre[1].key
    /\ \/ pre[1].left # None /\ root[1].left[1].key # pre[1].left[1].key
       \/ pre[1].right # None /\ root[1].right[1].key # pre[1].right[1].key
    /\ Size(root) >= 7
    /\ \A b \in {-1, 0, 1} : \E n \in Nodes(root) : balance_factor(n) = b /\ ~is_leaf(n)

\* C17: balance_factor of a node is height(left) - height(right) with an
\* absent child counted as -1: 0 without children, -(h+1) with only a right
\* child of height h, h+1 with only a left child of height h, a - b with
\* children of heights a and b.
BalanceFactorFormula ==
    \A n \in Nodes(root) :
       /\ balance_factor(n) = StoredHeight(n.left) - StoredHeight(n.right)
       /\ (n.left = None /\ n.right = None) => balance_factor(n) = 0
       /\ (n.left = None /\ n.right # None) =>
             balance_factor(n) = 0 - (n.right[1].height + 1)
       /\ (n.left # None /\ n.right = None) => balance_factor(n) = n.left[1].height + 1
       /\ (n.left # None /\ n.right # None) =>
             balance_factor(n) = n.left[1].height - n.right[1].height

\* C18: no insert aborts in rebalancing: whenever balance_node calls
\* rotate_right the node has a left child and whenever it calls rotate_left a
\* right child, the inner rotation of the left-right and right-left cases
\* included, so that none of the expect calls fails.
NoAbortInRebalancing ==
    last.op = "insert" => last.res = "Ok"

\* an insert that made a double rotation at the root of a tree of five or
\* more nodes: the new root was a grandchild of the old one
NoAbortInRebalancingWitness ==
    /\ last.op = "insert"
    /\ last.res = "Ok"
    /\ pre # None
    /\ Size(root) >= 5
    /\ root[1].key # pre[1].key
    /\ pre[1].left # None => root[1].key # pre[1].left[1].key
    /\ pre[1].right # None => root[1].key # pre[1].right[1].key
    /\ root[1].key # last.key

\* C19: rotate_right at X with left child L makes L the root of the subtree
\* with L.right = X and X.left = the former right subtree of L, and rotate_left
\* is the mirror image; the in-order sequence of (key, value) pairs is kept;
\* X and the new root are consistent in height and merkle_hash right after the
\* rotation whenever the subtrees below them were before.
RotationCorrect ==
    /\ (rot.op = "rotate_right" /\ rot.before[1].left # None) =>
          LET X == rot.before[1]
              L == X.left[1]
          IN  /\ rot.after # Panic
              /\ Len(rot.after) = 1
              /\ Content(rot.after[1]) = Content(L)
              /\ rot.after[1].left = L.left
              /\ rot.after[1].right # None
              /\ Content(rot.after[1].right[1]) = Content(X)
              /\ rot.after[1].right[1].left = L.right
              /\ rot.after[1].right[1].right = X.right
              /\ InOrder(rot.after) = InOrder(rot.before)
              /\ (SubtreeConsistent(L.left) /\ SubtreeConsistent(L.right)
                   /\ SubtreeConsistent(X.right)) =>
                     /\ NodeConsistent(rot.after[1].right[1])
                     /\ NodeConsistent(rot.after[1])
    /\ (rot.op = "rotate_left" /\ rot.before[1].right # None) =>
          LET X == rot.before[1]
              R == X.right[1]
          IN  /\ rot.after # Panic
              /\ Len(rot.after) = 1
              /\ Content(rot.after[1]) = Content(R)
              /\ rot.after[1].right = R.right
              /\ rot.after[1].left # None
              /\ Content(rot.after[1].left[1]) = Content(X)
              /\ rot.after[1].left[1].right = R.left
              /\ rot.after[1].left[1].left = X.left
              /\ InOrder(rot.after) = InOrder(rot.before)
              /\ (SubtreeConsistent(R.left) /\ SubtreeConsistent(R.right)
                   /\ SubtreeConsistent(X.left)) =>
                     /\ NodeConsistent(rot.after[1].left[1])
                     /\ NodeConsistent(rot.after[1])

\* rotate_right at a node with both children whose left child has a right
\* subtree, and whose merkle_hash was stale before the rotation
RotationCorrectWitness ==
    /\ rot.op = "rotate_right"
    /\ rot.before[1].left # None
    /\ rot.before[1].right # None
    /\ rot.before[1].left[1].right # None
    /\ ~NodeConsistent(rot.before[1])
    /\ SubtreeConsistent(rot.before[1].left)
    /\ SubtreeConsistent(rot.before[1].right)
    /\ rot.after # Panic
    /\ SubtreeConsistent(rot.after)
    /\ rot.after[1].right[1].height < rot.before[1].height

\* C20 as stated: insert(k, v') on a tree that holds k changes the value and
\* content hash of the node of k and nothing else: the shape, every height,
\* every merkle_hash (that of the node of k and of its ancestors too) and the
\* key, value and content hash of every other node stay, and nothing rotates.
OverwriteFrame ==
    (last.op = "insert" /\ last.was # None) =>
        /\ Blank(root, last.key) = Blank(pre, last.key)
        /\ NodeOf(root, last.key).value = last.value
        /\ NodeOf(root, last.key).hash = hash_array(<<last.key, last.value>>)

\* C20 as amended: insert(k, v') on a tree that holds k changes only the value
\* and content hash of the node of k and the merkle_hash of the nodes above
\* it: the shape, every height, the merkle_hash of the node of k and of every
\* node off the search path, and the key, value and content hash of every
\* other node stay, and nothing rotates; the merkle_hash of each node above is
\* recomputed from its content hash and its children's stored merkle_hash.
OverwriteFrameOffPath ==
    (last.op = "insert" /\ last.was # None) =>
        /\ BlankPath(root, last.key) = BlankPath(pre, last.key)
        /\ NodeOf(root, last.key).value = last.value
        /\ NodeOf(root, last.key).hash = hash_array(<<last.key, last.value>>)
        /\ NodeOf(root, last.key).merkle_hash = NodeOf(pre, last.key).merkle_hash
        /\ \A n \in Ancestors(root, last.key) : NodeConsistent(n)

\* an overwrite with a new value below a node that an earlier overwrite had
\* left stale: the merkle_hash of the root changes, that of the node does not
OverwriteFrameWitness ==
    /\ last.op = "insert"
    /\ last.was # None
    /\ last.was # Some(last.value)
    /\ Size(root) >= 3
    /\ root[1].key # last.key
    /\ root_hash(root) # root_hash(pre)
    /\ Shape(root) = Shape(pre)
    /\ NodeOf(root, last.key).merkle_hash = NodeOf(pre, last.key).merkle_hash

\* C21: for a present key, get_proof returns the key and value of its node and
\* a path with one step per node of the search path from the root, ordered
\* from the node of the key up to the root: first (left subtree hash or empty,
\* right subtree hash or empty) of the node of the key, then for each node
\* above it (empty, content hash || right subtree hash or nothing) where the
\* search went left and (left subtree hash or nothing || content hash, empty)
\* where it went right.
ProofPathShape ==
    /\ \A k \in AllKeys :
          kv[k] # None =>
             /\ get_proof(root, k) # None
             /\ get_proof(root, k)[1].key = k
             /\ get_proof(root, k)[1].value = kv[k][1]
             /\ PathShape(root, k, get_proof(root, k)[1])
    /\ (last.op = "get_proof" /\ last.was # None) =>
          /\ last.proof # None
          /\ PathShape(root, last.key, last.proof[1])

\* get_proof of a key four levels down whose search goes left at a node with
\* a right child, right at a node with a left child, and passes a node with
\* no child on the other side
ProofPathShapeWitness ==
    /\ last.op = "get_proof"
    /\ last.was # None
    /\ last.proof # None
    /\ Len(last.proof[1].path) >= 4
    /\ \E i \in 2..Len(last.proof[1].path) : Len(last.proof[1].path[i].prefix) = 2
    /\ \E i \in 2..Len(last.proof[1].path) : Len(last.proof[1].path[i].suffix) = 2
    /\ \E i \in 2..Len(last.proof[1].path) :
          Len(last.proof[1].path[i].prefix) + Len(last.proof[1].path[i].suffix) = 1

\* C22: proofs stay valid across overwrites: after inserts that may hit present
\* keys with new values, for every present key k the proof get_proof(k)
\* carries the current value get(k), and verify_existence(k, get(k),
\* get_proof(k)) is Ok against the current root_hash().
ProofsAcrossOverwrites ==
    last.op = "verify_existence" =>
        /\ last.value = kv[last.key][1]
        /\ last.proof[1].value = last.value
        /\ last.res = "Ok"

====
